---- MODULE Spec2Model ----
(***************************************************************************)
(* Model of the ingestion and aggregation core of src/app.py: the         *)
(* validation of a submitted reading, the readings table, the recent-      *)
(* readings cache, the statistics computation and the schema set-up.       *)
(*                                                                         *)
(* Time is counted in whole seconds.  A temperature is a whole number of   *)
(* degrees.  A Python value that may be None is a record with a field k.   *)
(***************************************************************************)
EXTENDS Integers, Sequences, FiniteSets, TLC

VARIABLES rows, cache, now, resp, pc, schema, dropped

vars == <<rows, cache, now, resp, pc, schema, dropped>>

(***************************************************************************)
(* Bounds of the model.                                                    *)
(***************************************************************************)
MaxRows == 1
MaxTicks == 2
MaxStatRows == 3
MaxInitCalls == 2
MaxConcRows == 1
MaxIngestRows == 1
MaxCoreRows == 2
MaxFaultRows == 2
MaxQueryRows == 3
MaxTokenRows == 2
MaxLegacyRows == 2
ProbeMargin == 3

(***************************************************************************)
(* Program constants.                                                      *)
(***************************************************************************)
TempMin == -10
TempMax == 80
cache_timeout == 60
SecondsPerHour == 3600
MinutesPerDay == 1440

(***************************************************************************)
(* Python values.                                                          *)
(***************************************************************************)
None == [k |-> "none"]
Num(x) == [k |-> "num", v |-> x]

\* A JSON value as request.get_json / json.load hands it over:
\*   missing  the key is not in the object (dict.get gives None)
\*   null     JSON null
\*   num      a number, v its value
\*   bigint   an integer literal too large for a float, v its sign
\*   nan      the literal NaN
\*   inf      a number that overflows to +/-infinity (1e400), v its sign
\*   bool     true / false, v = 1 / 0
\*   strnum   a string holding a number, v its value
\*   text     a string that holds no number
\*   list     an array or an object
Raw(k, v) == [k |-> k, v |-> v]

\* float(val): the exception raised ("" when none) and the float made.
\* A float is a num, a nan or an inf record.
Float(val) ==
  CASE val.k \in {"missing", "null", "list"} -> [exc |-> "TypeError", f |-> None]
    [] val.k = "text" -> [exc |-> "ValueError", f |-> None]
    [] val.k = "bigint" -> [exc |-> "OverflowError", f |-> None]
    [] val.k = "nan" -> [exc |-> "", f |-> [k |-> "nan"]]
    [] val.k = "inf" -> [exc |-> "", f |-> [k |-> "inf", v |-> val.v]]
    [] OTHER -> [exc |-> "", f |-> Num(val.v)]

\* -10 <= v <= 80 on floats: false for a nan, decided by the sign for an inf.
InRange(f) == f.k = "num" /\ TempMin <= f.v /\ f.v <= TempMax

\* validate_temp(val): exc is the exception that leaves the function ("" when
\* it returns), ret the value returned.
validate_temp(val) ==
  LET r == Float(val)
  IN  IF r.exc = ""
      THEN [exc |-> "", ret |-> IF InRange(r.f) THEN r.f ELSE None]
      ELSE IF r.exc \in {"TypeError", "ValueError"}
           THEN [exc |-> "", ret |-> None]
           ELSE [exc |-> r.exc, ret |-> None]

(***************************************************************************)
(* Timestamps.  A timestamp text is a record: sep the separator between    *)
(* date and time, t the second its date and time fields name, frac its    *)
(* fraction of a second in tenths, off its UTC offset in hours ahead of    *)
(* the server's zone (0 for a text without offset).  The table's form      *)
(* 'YYYY-MM-DD HH:MM:SS' has sep " ", no fraction and no offset.           *)
(***************************************************************************)
DbTime(t) == [sep |-> " ", t |-> t, frac |-> 0, off |-> 0]

\* A raw ts field:
\*   missing, null       Python None
\*   nullstr             the string "null"
\*   empty               the string ""
\*   text                a string that is no date
\*   zero                a falsy non-string (0, false, [])
\*   nonstr              a truthy non-string (a number, true, an object)
\*   iso                 an ISO-8601 date and time, with sep, t, frac, off
RawTs(k) == [k |-> k]
IsoTs(sep, t, frac, off) ==
  [k |-> "iso", sep |-> sep, t |-> t, frac |-> frac, off |-> off]

\* `not timestamp or timestamp == "null"`
TsUnset(ts) == ts.k \in {"missing", "null", "empty", "zero", "nullstr"}

\* timestamp.replace('T', ' ')
ReplaceT(ts) == [ts EXCEPT !.sep = " "]

\* datetime.fromisoformat(text).strftime("%Y-%m-%d %H:%M:%S"): the fraction
\* and the offset are parsed and not printed; the date and time fields are
\* printed as they were read.
StrfTime(text) == [sep |-> " ", t |-> text.t, frac |-> 0, off |-> 0]

\* datetime.now().strftime("%Y-%m-%d %H:%M:%S")
ServerTime(clock) == DbTime(clock)

\* _format_timestamp(timestamp); exc is "" as every exception is caught.
format_timestamp(ts, clock) ==
  IF TsUnset(ts) THEN [exc |-> "", ret |-> ServerTime(clock)]
  ELSE IF ts.k = "iso" THEN [exc |-> "", ret |-> StrfTime(ReplaceT(ts))]
  ELSE [exc |-> "", ret |-> ServerTime(clock)]

\* The order of two timestamp texts as SQLite compares them (as text): by
\* the second, then by the fraction (a text without fraction is a prefix of
\* the same second with one).
TsGE(a, b) == a.t > b.t \/ (a.t = b.t /\ a.frac >= b.frac)

\* datetime.now() - timedelta(hours=hours), bound as text.
Cutoff(clock, hours) == DbTime(clock - hours * SecondsPerHour)

\* datetime.fromisoformat(ts).strftime('%H:%M'), as the minute of the day.
HHMM(ts) == (ts.t \div 60) % MinutesPerDay

(***************************************************************************)
(* The readings table.  rows holds the committed rows in the order of      *)
(* their ids.                                                              *)
(***************************************************************************)

\* dict.get(key) on a parsed JSON object: None for a missing key or a null.
PyValue(raw) ==
  IF raw.k \in {"missing", "null"} THEN None
  ELSE IF raw.k = "num" THEN Num(raw.v)
  ELSE raw

\* The value SQLite stores for a parameter bound to a REAL column; exc is
\* the exception sqlite3 raises for a value it cannot bind.
BindReal(val) ==
  CASE val.k \in {"none", "nan"} -> [exc |-> "", v |-> None]
    [] val.k \in {"num", "bool", "strnum"} -> [exc |-> "", v |-> Num(val.v)]
    [] val.k = "bigint" -> [exc |-> "OverflowError", v |-> None]
    [] val.k = "list" -> [exc |-> "ProgrammingError", v |-> None]
    [] OTHER -> [exc |-> "", v |-> val]

\* The ways the store can fail during a call: get_db_connection cannot
\* open the file, or the INSERT or the COMMIT finds the database locked
\* after the busy timeout.
StoreFaults == {"none", "connect", "insert", "commit"}

FaultExc(fault) == IF fault = "none" THEN "" ELSE "OperationalError"

\* str(e) of an exception that reaches submit's handler.
ExcText(exc, fault) ==
  CASE exc = "OperationalError" /\ fault = "connect" -> "unable to open database file"
    [] exc = "OperationalError" -> "database is locked"
    [] exc = "OverflowError" -> "int too large to convert to float"
    [] exc = "AttributeError" -> "object has no attribute 'get'"
    [] OTHER -> exc

\* The five flags of the diagnostics.
Flags ==
  {"probe_mode_completed", "should_run_probe", "probe_done_this_cycle",
   "rtc_sleep_armed", "unsafe_wake"}

\* The diagnostic columns of a row: wake_cause stands for the six columns
\* that take debug_data.get(name) as it is (wake_cause, wake_cause_name,
\* reset_reason, reset_reason_name, boot_count, last_boot_count), flags for
\* the five BOOLEAN columns.
Bool(b) == [k |-> "bool", v |-> IF b THEN 1 ELSE 0]
NoDebug == [wake_cause |-> None, flags |-> [f \in Flags |-> None]]

\* A raw debug field of a payload:
\*   missing, null       Python None
\*   emptydict           the object without keys, {}, which is falsy
\*   empty               another falsy value ("", 0, [])
\*   text                a truthy value that is no object (a string, a
\*                       number, a list)
\*   dict                an object with a wake_cause and the flags; a flag
\*                       is a raw value of kind "true" (the string "true"),
\*                       "false" (the string "false"), "upper" (the string
\*                       "True"), "jsontrue" (the JSON boolean), "num" or
\*                       "missing"
RawDebug(k) == [k |-> k]
DebugDict(wake_cause, flags) ==
  [k |-> "dict", wake_cause |-> wake_cause, flags |-> flags]

\* `... if debug_data else None`
DebugUnset(d) == d.k \in {"missing", "null", "emptydict", "empty"}

\* debug_data.get(flag) == 'true' if debug_data else None
FlagValue(d, f) ==
  IF DebugUnset(d) THEN None ELSE Bool(d.flags[f].k = "true")

\* Lines 158-169 of add_reading: exc is the AttributeError of a truthy
\* debug_data without get(), cols the values bound to the columns.
ExtractDebug(d) ==
  IF DebugUnset(d) THEN [exc |-> "", cols |-> NoDebug]
  ELSE IF d.k # "dict" THEN [exc |-> "AttributeError", cols |-> NoDebug]
  ELSE [exc |-> "",
        cols |-> [wake_cause |-> PyValue(d.wake_cause),
                  flags |-> [f \in Flags |-> FlagValue(d, f)]]]

\* The value SQLite stores for a parameter bound to an INTEGER or TEXT
\* column: a list or an object cannot be bound.
BindAny(val) ==
  IF val.k = "list" THEN [exc |-> "ProgrammingError", v |-> None]
  ELSE [exc |-> "", v |-> val]

\* The row inserted with the key of the first row instead of a new one.
NewRow_FirstId(store, ts, t1, t2, t3, battery, battery_status) ==
  [id |-> 1, timestamp |-> ts, t1 |-> t1, t2 |-> t2, t3 |-> t3,
   battery |-> battery, battery_status |-> battery_status,
   debug |-> NoDebug]

\* The row add_reading inserts; the id is the AUTOINCREMENT key.
NewRow(store, ts, t1, t2, t3, battery, battery_status) ==
  [id |-> Len(store) + 1, timestamp |-> ts, t1 |-> t1, t2 |-> t2, t3 |-> t3,
   battery |-> battery, battery_status |-> battery_status,
   debug |-> NoDebug]

\* add_reading up to conn.close(): the connection, the INSERT with the
\* formatted timestamp, the COMMIT.  exc is the exception raised ("" when
\* none), rows the table afterwards, open the connections the call has
\* opened and not closed when it is left: conn.close() is one statement
\* after conn.commit(), with no try/finally around the body.
insert_reading(store, t1, t2, t3, battery, battery_status, timestamp, debug_data, fault, clock) ==
  LET b1 == BindReal(t1)
      b2 == BindReal(t2)
      b3 == BindReal(t3)
      bb == BindReal(battery)
      dbg == ExtractDebug(debug_data)
      bw == BindAny(dbg.cols.wake_cause)
      ts == format_timestamp(timestamp, clock)
      bad == {b.exc : b \in {b1, b2, b3, bb, bw}} \ {""}
  IN  IF fault = "connect"
      THEN [exc |-> FaultExc(fault), rows |-> store, open |-> 0]
      ELSE IF dbg.exc # "" THEN [exc |-> dbg.exc, rows |-> store, open |-> 1]
      ELSE IF ts.exc # "" THEN [exc |-> ts.exc, rows |-> store, open |-> 1]
      ELSE IF bad # {}
      THEN [exc |-> CHOOSE e \in bad : TRUE, rows |-> store, open |-> 1]
      ELSE IF fault \in {"insert", "commit"}
      THEN [exc |-> FaultExc(fault), rows |-> store, open |-> 1]
      ELSE [exc |-> "", open |-> 0,
            rows |-> Append(store,
                            [NewRow(store, ts.ret, b1.v, b2.v, b3.v, bb.v,
                                    battery_status)
                               EXCEPT !.debug = dbg.cols])]

\* The last line of add_reading, self.cache.clear(), which runs when
\* nothing was raised before it: r is what insert_reading gave.
ClearAfter(r) ==
  [exc |-> r.exc, rows |-> r.rows, clear |-> r.exc = "", open |-> r.open]

\* add_reading without its last line, self.cache.clear().
add_reading_NoClear(store, t1, t2, t3, battery, battery_status, timestamp, debug_data, fault, clock) ==
  [ClearAfter(insert_reading(store, t1, t2, t3, battery, battery_status,
                             timestamp, debug_data, fault, clock))
     EXCEPT !.clear = FALSE]

\* add_reading with self.cache.clear() in a finally clause: the cache is
\* cleared on every path.
add_reading_ClearAlways(store, t1, t2, t3, battery, battery_status, timestamp, debug_data, fault, clock) ==
  [ClearAfter(insert_reading(store, t1, t2, t3, battery, battery_status,
                             timestamp, debug_data, fault, clock))
     EXCEPT !.clear = TRUE]

\* add_reading(t1, t2, t3, battery, battery_status, timestamp, debug_data):
\* exc is the exception that leaves it ("" when it returns), rows the table
\* afterwards, clear whether self.cache.clear() ran.
add_reading(store, t1, t2, t3, battery, battery_status, timestamp, debug_data, fault, clock) ==
  ClearAfter(insert_reading(store, t1, t2, t3, battery, battery_status,
                            timestamp, debug_data, fault, clock))

\* A request body of /submit: kind "dict" is a JSON object with the fields
\* t1, t2, t3, battery, battery_status and ts and without debug; kind
\* "list" is valid JSON that is no object, so that data.get raises.
Payload(t1, t2, t3, battery, battery_status, ts) ==
  [kind |-> "dict", t1 |-> t1, t2 |-> t2, t3 |-> t3, battery |-> battery,
   battery_status |-> battery_status, ts |-> ts,
   debug |-> RawDebug("missing")]
ListPayload == [kind |-> "list"]

\* The body p with the debug field d.
WithDebug(p, d) == [p EXCEPT !.debug = d]

SubmitError(store, text) ==
  [code |-> 400, status |-> "error", message |-> text, rows |-> store,
   clear |-> FALSE, calls |-> 0, open |-> 0]

\* What add_reading gave (a), with the number n of calls made.
Called(a, n) ==
  [exc |-> a.exc, rows |-> a.rows, clear |-> a.clear, calls |-> n,
   open |-> a.open]

\* Lines 313 and 317-318 of submit: the answer after add_reading, a being
\* what the call gave.
Answer(a, fault) ==
  IF a.exc # ""
  THEN [SubmitError(a.rows, ExcText(a.exc, fault))
          EXCEPT !.calls = a.calls, !.open = a.open]
  ELSE [code |-> 200, status |-> "ok",
        message |-> "Data recorded successfully",
        rows |-> a.rows, clear |-> a.clear,
        calls |-> a.calls, open |-> a.open]

\* The call of add_reading repeated once, without the failure, when it
\* raises.
record_reading_Retry(store, v1, v2, v3, p, fault, clock) ==
  LET a == add_reading(store, v1, v2, v3, PyValue(p.battery),
                       p.battery_status, p.ts, p.debug, fault, clock)
      b == add_reading(store, v1, v2, v3, PyValue(p.battery),
                       p.battery_status, p.ts, p.debug, "none", clock)
  IN  IF a.exc = ""
      THEN [exc |-> a.exc, rows |-> a.rows, clear |-> a.clear, calls |-> 1,
            open |-> a.open]
      ELSE [exc |-> b.exc, rows |-> b.rows, clear |-> b.clear, calls |-> 2,
            open |-> a.open + b.open]

\* Line 312 of submit: data_manager.add_reading(t1, t2, t3, battery,
\* battery_status, data.get("ts"), debug_data); calls counts the calls of
\* add_reading.
record_reading(store, v1, v2, v3, p, fault, clock) ==
  Called(add_reading(store, v1, v2, v3, PyValue(p.battery),
                     p.battery_status, p.ts, p.debug, fault, clock), 1)

\* submit(): the response (code, status, message), the table afterwards,
\* whether the cache was cleared and how often add_reading was called.
submit(store, p, fault, clock) ==
  IF p.kind # "dict" THEN SubmitError(store, ExcText("AttributeError", fault))
  ELSE
    LET v1 == validate_temp(p.t1)
        v2 == validate_temp(p.t2)
        v3 == validate_temp(p.t3)
    IN  IF v1.exc # "" THEN SubmitError(store, ExcText(v1.exc, fault))
        ELSE IF v2.exc # "" THEN SubmitError(store, ExcText(v2.exc, fault))
        ELSE IF v3.exc # "" THEN SubmitError(store, ExcText(v3.exc, fault))
        ELSE IF v1.ret # None \/ v2.ret # None \/ v3.ret # None
        THEN Answer(record_reading(store, v1.ret, v2.ret, v3.ret, p,
                                   fault, clock), fault)
        ELSE SubmitError(store, "No valid temperature data")

\* One entry of migrate_json_data: add_reading on the entry's fields as
\* they are, with no timestamp; an exception is caught and printed.
migrate_entry(store, e, fault, clock) ==
  add_reading(store, PyValue(e.t1), PyValue(e.t2), PyValue(e.t3),
              PyValue(e.battery), e.battery_status, RawTs("missing"),
              RawDebug("missing"), fault, clock)

(***************************************************************************)
(* Queries.  SQL leaves the order of rows with equal timestamps open, so   *)
(* a query has a set of possible results.                                  *)
(***************************************************************************)

\* WHERE timestamp >= cutoff: the positions in the table of the rows kept.
InWindow(store, cutoff) ==
  {i \in 1..Len(store) : TsGE(store[i].timestamp, cutoff)}

\* ORDER BY timestamp ASC / DESC over the rows S: every sequence of all of
\* S in which the timestamps never decrease / never increase.  A row can
\* come first when no other row has to come before it.
RECURSIVE OrderedBy(_, _, _)
OrderedBy(store, S, desc) ==
  IF S = {} THEN {<<>>}
  ELSE LET firsts ==
             {i \in S : \A j \in S :
                IF desc THEN TsGE(store[i].timestamp, store[j].timestamp)
                        ELSE TsGE(store[j].timestamp, store[i].timestamp)}
       IN  UNION {{<<i>> \o s : s \in OrderedBy(store, S \ {i}, desc)} :
                    i \in firsts}

\* LIMIT n: a negative n is no limit.
Limit(s, n) ==
  IF n < 0 \/ n >= Len(s) THEN s ELSE SubSeq(s, 1, n)

\* One element of the list get_recent_readings builds.
ReadingDict(r) ==
  [time |-> HHMM(r.timestamp), ts |-> r.timestamp, t1 |-> r.t1, t2 |-> r.t2,
   t3 |-> r.t3, battery |-> r.battery, battery_status |-> r.battery_status]

\* The lists the SELECT of get_recent_readings can produce at `clock`.
RecentResults(store, clock, hours, limit) ==
  {[i \in 1..Len(Limit(s, limit)) |-> ReadingDict(store[s[i]])] :
     s \in OrderedBy(store, InWindow(store, Cutoff(clock, hours)), TRUE)}

\* cache_key = f"recent_{hours}_{limit}"
CacheKey(hours, limit) == <<"recent", hours, limit>>

\* self.cache[cache_key] = (data, now)
CachePut(c, key, data, clock) ==
  [x \in DOMAIN c \cup {key} |->
     IF x = key THEN [data |-> data, timestamp |-> clock] ELSE c[x]]

\* self.cache.clear()
EmptyCache == [x \in {} |-> None]

\* The freshness test with <= for <.
CacheFreshLe(c, key, clock) ==
  key \in DOMAIN c /\ clock - c[key].timestamp <= cache_timeout

\* `cache_key in self.cache` and `now - timestamp < self.cache_timeout`
CacheFresh(c, key, clock) ==
  key \in DOMAIN c /\ clock - c[key].timestamp < cache_timeout

\* The keys of c whose entry is fresh at `clock`.
FreshKeys(c, clock) == {x \in DOMAIN c : CacheFresh(c, x, clock)}

(***************************************************************************)
(* get_statistics.                                                         *)
(***************************************************************************)
Sensors == <<"t1", "t2", "t3">>

\* row[0] if sensor == 't1' else row[1] if sensor == 't2' else row[2]
SensorValue(r, sensor) ==
  IF sensor = "t1" THEN r.t1 ELSE IF sensor = "t2" THEN r.t2 ELSE r.t3

\* The values of one sensor in the fetched rows, in their order, without
\* the rows whose three values are all None and without the None values.
RECURSIVE SensorValues(_, _)
SensorValues(data, sensor) ==
  IF data = <<>> THEN <<>>
  ELSE LET r == Head(data)
           rest == SensorValues(Tail(data), sensor)
       IN  IF (r.t1 # None \/ r.t2 # None \/ r.t3 # None)
              /\ SensorValue(r, sensor) # None
           THEN <<SensorValue(r, sensor).v>> \o rest
           ELSE rest

RECURSIVE SeqSum(_)
SeqSum(s) == IF s = <<>> THEN 0 ELSE Head(s) + SeqSum(Tail(s))

RECURSIVE SeqMin(_)
SeqMin(s) ==
  IF Len(s) = 1 THEN Head(s)
  ELSE LET m == SeqMin(Tail(s)) IN IF Head(s) <= m THEN Head(s) ELSE m

RECURSIVE SeqMax(_)
SeqMax(s) ==
  IF Len(s) = 1 THEN Head(s)
  ELSE LET m == SeqMax(Tail(s)) IN IF Head(s) >= m THEN Head(s) ELSE m

\* round(statistics.mean(values), 2) in hundredths: the mean is exact, and
\* round() takes an exact half to the even neighbour.
RoundedMean(values) ==
  LET n == Len(values)
      q == (100 * SeqSum(values)) \div n
      r == (100 * SeqSum(values)) % n
  IN  IF 2 * r < n THEN q
      ELSE IF 2 * r > n THEN q + 1
      ELSE IF q % 2 = 0 THEN q ELSE q + 1

\* The timestamp of the last fetched row that holds val.
RECURSIVE FirstTime_Last(_, _, _)
FirstTime_Last(data, sensor, val) ==
  IF SensorValue(data[Len(data)], sensor) = Num(val)
  THEN data[Len(data)].timestamp
  ELSE FirstTime_Last(SubSeq(data, 1, Len(data) - 1), sensor, val)

\* next(row[3] for row in data if value(row) == val): the timestamp of the
\* first fetched row that holds val.
RECURSIVE FirstTime(_, _, _)
FirstTime(data, sensor, val) ==
  IF SensorValue(Head(data), sensor) = Num(val) THEN Head(data).timestamp
  ELSE FirstTime(Tail(data), sensor, val)

\* stats[sensor] for the fetched rows.
SensorStats(data, sensor) ==
  LET values == SensorValues(data, sensor)
  IN  IF values # <<>>
      THEN [k |-> "stats",
            min |-> [val |-> SeqMin(values),
                     time |-> HHMM(FirstTime(data, sensor, SeqMin(values)))],
            max |-> [val |-> SeqMax(values),
                     time |-> HHMM(FirstTime(data, sensor, SeqMax(values)))],
            avg |-> RoundedMean(values),
            current |-> values[Len(values)]]
      ELSE None

\* What get_statistics returns for the rows its SELECT fetched.
StatsOf(data) ==
  IF data = <<>> THEN [t1 |-> None, t2 |-> None, t3 |-> None]
  ELSE [t1 |-> SensorStats(data, Sensors[1]),
        t2 |-> SensorStats(data, Sensors[2]),
        t3 |-> SensorStats(data, Sensors[3])]

\* The rows of the window in the order of their insertion.
StatsRows_ById(store, clock, hours) ==
  {SelectSeq(store, LAMBDA r : TsGE(r.timestamp, Cutoff(clock, hours)))}

\* The rows the SELECT of get_statistics can fetch at `clock`.
StatsRows(store, clock, hours) ==
  {[i \in 1..Len(s) |-> store[s[i]]] :
     s \in OrderedBy(store, InWindow(store, Cutoff(clock, hours)), FALSE)}

\* min(values) and statistics.mean(values) raise TypeError for a value
\* that is a text: SQLite keeps a text that is no number as it is in a REAL
\* column, and returns it as a str.
HasText(data) ==
  \E i \in 1..Len(data) :
    \E sensor \in {"t1", "t2", "t3"} : SensorValue(data[i], sensor).k = "text"

\* The outcomes get_statistics can have at `clock`: exc the exception it
\* raises ("" when it returns), stats what it returns.
get_statistics(store, clock, hours) ==
  {IF HasText(data) THEN [exc |-> "TypeError", stats |-> None]
   ELSE [exc |-> "", stats |-> StatsOf(data)] :
     data \in StatsRows(store, clock, hours)}

(***************************************************************************)
(* init_database.  A schema is whether the table exists, its columns in    *)
(* their order, and whether the timestamp index exists.                    *)
(***************************************************************************)
BaseColumns == <<"id", "timestamp", "t1", "t2", "t3", "sensor_status">>

\* The columns the ALTER TABLE statements add, in the order of the code.
AlterColumns ==
  <<"battery", "battery_status", "wake_cause", "wake_cause_name",
    "reset_reason", "reset_reason_name", "boot_count", "last_boot_count",
    "probe_mode_completed", "should_run_probe", "probe_done_this_cycle",
    "rtc_sleep_armed", "unsafe_wake">>

\* The columns of CREATE TABLE, in its order.
CreateColumns ==
  <<"id", "timestamp", "t1", "t2", "t3", "battery", "battery_status",
    "sensor_status", "wake_cause", "wake_cause_name", "reset_reason",
    "reset_reason_name", "boot_count", "last_boot_count",
    "probe_mode_completed", "should_run_probe", "probe_done_this_cycle",
    "rtc_sleep_armed", "unsafe_wake">>

NoSchema == [table |-> FALSE, cols |-> <<>>, index |-> FALSE]
FullSchema == [table |-> TRUE, cols |-> CreateColumns, index |-> TRUE]

Range(s) == {s[i] : i \in 1..Len(s)}

\* CREATE TABLE IF NOT EXISTS
CreateTable(s) ==
  IF s.table THEN s ELSE [s EXCEPT !.table = TRUE, !.cols = CreateColumns]

\* CREATE INDEX IF NOT EXISTS
CreateIndex(s) == [s EXCEPT !.index = TRUE]

\* ALTER TABLE ADD COLUMN c: SQLite raises OperationalError (duplicate
\* column name) when the table has the column.
AlterTable(s, c) ==
  IF c \in Range(s.cols) THEN [exc |-> "OperationalError", schema |-> s]
  ELSE [exc |-> "", schema |-> [s EXCEPT !.cols = Append(s.cols, c)]]

\* ALTER TABLE outside a try: the duplicate-column error is not caught.
AddColumnNoCatch(s, c) == AlterTable(s, c)

\* try: ALTER TABLE ... except sqlite3.OperationalError: pass
AddColumn(s, c) ==
  LET r == AlterTable(s, c)
  IN  IF r.exc = "OperationalError" THEN [exc |-> "", schema |-> r.schema]
      ELSE r

\* The ALTER TABLE statements from the i-th on; the first exception that
\* is not caught ends them.
RECURSIVE AddColumnsFrom(_, _)
AddColumnsFrom(s, i) ==
  IF i > Len(AlterColumns) THEN [exc |-> "", schema |-> s]
  ELSE LET r == AddColumn(s, AlterColumns[i])
       IN  IF r.exc # "" THEN r ELSE AddColumnsFrom(r.schema, i + 1)

\* The table rebuilt by dropping it: the rows are lost.
AlterRows_Recreate(store, added) == <<>>

\* The rows of the table after ALTER TABLE ADD COLUMN for the columns
\* `added`: a row of a table is a function of the table's columns, and an
\* added column (no DEFAULT is given) is NULL in every row there is.
AlterRows(store, added) ==
  [i \in 1..Len(store) |->
     [c \in DOMAIN store[i] \cup added |->
        IF c \in DOMAIN store[i] THEN store[i][c] ELSE None]]

\* The rows after init_database has taken the schema from s to s2: only
\* ALTER TABLE ADD COLUMN touches the table.
RowsAfterInit(store, s, s2) ==
  LET added == Range(s2.cols) \ Range(s.cols)
  IN  IF s.table /\ added # {} THEN AlterRows(store, added) ELSE store

\* init_database(): exc is the exception that leaves it, schema the schema
\* afterwards.
init_database(s, fault) ==
  IF fault = "connect" THEN [exc |-> FaultExc(fault), schema |-> s]
  ELSE AddColumnsFrom(CreateIndex(CreateTable(s)), 1)

(***************************************************************************)
(* The state.  rows is the readings table, cache is self.cache, now the    *)
(* server's clock, schema the database schema.  resp is the response of    *)
(* the call that has just returned, with its request.  pc holds the        *)
(* position and the locals of each request thread that is inside a call.   *)
(* dropped is a history variable: the keys whose entry was fresh when the  *)
(* last self.cache.clear() removed it.                                     *)
(***************************************************************************)
Readers == {"r1", "r2"}
Writer == "w"
Threads == Readers \cup {Writer}

Idle == [st |-> "idle"]
NoResp == [op |-> "none"]

\* The state after TemperatureDataManager.__init__.
Init ==
  /\ rows = <<>>
  /\ cache = EmptyCache
  /\ now = 0
  /\ resp = NoResp
  /\ pc = [t \in Threads |-> Idle]
  /\ schema = FullSchema
  /\ dropped = {}

\* The clock advances by d seconds.
TicksOf(clock) ==
  clock \div SecondsPerHour + (clock % SecondsPerHour) \div 30

Tick(d) ==
  /\ TicksOf(now + d) <= MaxTicks
  /\ now' = now + d
  /\ resp' = NoResp
  /\ UNCHANGED <<rows, cache, pc, schema, dropped>>

\* POST /submit with body p, the store failing as `fault` says.
Submit(p, fault, bound) ==
  LET r == submit(rows, p, fault, now)
  IN  /\ Len(r.rows) <= bound
      /\ rows' = r.rows
      /\ cache' = IF r.clear THEN EmptyCache ELSE cache
      /\ dropped' = IF r.clear THEN FreshKeys(cache, now) ELSE dropped
      /\ resp' = [op |-> "submit", req |-> p, fault |-> fault,
                  code |-> r.code, status |-> r.status, message |-> r.message,
                  calls |-> r.calls, open |-> r.open]
      /\ UNCHANGED <<now, pc, schema>>

\* migrate_json_data reaches entry e of a file.
Migrate(e, fault, bound) ==
  LET r == migrate_entry(rows, e, fault, now)
  IN  /\ Len(r.rows) <= bound
      /\ rows' = r.rows
      /\ cache' = IF r.clear THEN EmptyCache ELSE cache
      /\ dropped' = IF r.clear THEN FreshKeys(cache, now) ELSE dropped
      /\ resp' = [op |-> "migrate", req |-> e, fault |-> fault, exc |-> r.exc,
                  open |-> r.open]
      /\ UNCHANGED <<now, pc, schema>>

\* get_recent_readings(hours, limit), from the cache or from the table.
\* open: a hit returns before a connection is made, and the other path
\* reaches conn.close() as nothing in the model makes its SELECT fail.
\* src tells where the result came from: a fresh entry ("hit"), the table
\* as the entry was too old ("stale") or as there was none ("miss"); at is
\* the time the result was computed.
GetRecentReadings(hours, limit) ==
  LET key == CacheKey(hours, limit)
  IN  /\ IF CacheFresh(cache, key, now)
         THEN /\ cache' = cache
              /\ resp' = [op |-> "recent", hours |-> hours, limit |-> limit,
                          src |-> "hit", at |-> cache[key].timestamp,
                          data |-> cache[key].data, open |-> 0]
         ELSE \E data \in RecentResults(rows, now, hours, limit) :
                /\ cache' = CachePut(cache, key, data, now)
                /\ resp' = [op |-> "recent", hours |-> hours, limit |-> limit,
                            src |-> IF key \in DOMAIN cache THEN "stale"
                                                             ELSE "miss",
                            at |-> now, data |-> data, open |-> 0]
      /\ UNCHANGED <<rows, now, pc, schema, dropped>>

\* get_statistics(hours).
GetStatistics(hours) ==
  /\ \E r \in get_statistics(rows, now, hours) :
       resp' = [op |-> "stats", hours |-> hours, at |-> now, exc |-> r.exc,
                stats |-> r.stats]
  /\ UNCHANGED <<rows, cache, now, pc, schema, dropped>>

(***************************************************************************)
(* Spec: the calls of the core one after the other, none overlapping.      *)
(***************************************************************************)
TickSteps == {30, SecondsPerHour}
QueryHours == {1, 2}
QueryParams == {<<1, 1000>>, <<2, 1>>}

SpecPayloads ==
  {Payload(Raw("num", 20), Raw("missing", 0), Raw("missing", 0),
           Raw("null", 0), None, RawTs("missing")),
   Payload(Raw("num", 20), Raw("num", 60), Raw("missing", 0),
           Raw("null", 0), None, IsoTs("T", 0, 0, 0)),
   Payload(Raw("num", 81), Raw("missing", 0), Raw("missing", 0),
           Raw("null", 0), None, RawTs("missing")),
   ListPayload}

\* An entry of a legacy JSON log file.
Entry(t1, t2, t3) ==
  [t1 |-> t1, t2 |-> t2, t3 |-> t3, battery |-> Raw("missing", 0),
   battery_status |-> None]

Next ==
  \/ \E d \in TickSteps : Tick(d)
  \/ \E p \in SpecPayloads, f \in {"none", "commit"} : Submit(p, f, MaxRows)
  \/ \E q \in QueryParams : GetRecentReadings(q[1], q[2])
  \/ \E h \in QueryHours : GetStatistics(h)

Spec == Init /\ [][Next]_vars

(***************************************************************************)
(* IngestSpec: the two callers of add_reading on every kind of field.      *)
(***************************************************************************)
IngestT1 ==
  {Raw("missing", 0), Raw("null", 0), Raw("num", TempMin - 1),
   Raw("num", TempMin), Raw("num", TempMax), Raw("num", TempMax + 1),
   Raw("bigint", 1), Raw("nan", 0), Raw("inf", 1), Raw("text", 0),
   Raw("strnum", 20), Raw("bool", 1), Raw("list", 0)}
IngestT2 == {Raw("missing", 0), Raw("num", 60)}
IngestT3 == {Raw("null", 0), Raw("num", 95), Raw("num", 5)}

IngestTs ==
  {RawTs(k) : k \in {"missing", "null", "nullstr", "empty", "text", "zero",
                     "nonstr"}}
  \cup {IsoTs(sep, t, frac, off) : sep \in {"T", " "}, t \in {1800, 5400},
                                   frac \in {0, 5}, off \in {0, 2}}

TempPayloads ==
  {Payload(t1, t2, t3, Raw("num", 4), None, RawTs("missing")) :
     t1 \in IngestT1, t2 \in IngestT2, t3 \in IngestT3}
  \cup {ListPayload}

TsPayloads ==
  {Payload(Raw("num", 20), Raw("missing", 0), Raw("missing", 0),
           Raw("missing", 0), None, ts) : ts \in IngestTs}

IngestEntries ==
  {Entry(t1, Raw("missing", 0), t3) :
     t1 \in {Raw("missing", 0), Raw("num", 20), Raw("num", 95),
             Raw("text", 0)},
     t3 \in {Raw("null", 0), Raw("num", TempMin - 1)}}

FaultPayloads ==
  {Payload(t1, Raw("missing", 0), Raw("missing", 0), Raw("missing", 0), None,
           RawTs("missing")) : t1 \in {Raw("num", 20), Raw("num", 95)}}

\* Bodies whose battery is a JSON number, a string of a number, true, NaN
\* (which json.loads accepts) or a text.
BatteryPayloads ==
  {Payload(Raw("num", 20), Raw("missing", 0), Raw("missing", 0), b, None,
           RawTs("missing")) :
     b \in {Raw("num", 4), Raw("strnum", 4), Raw("bool", 1), Raw("nan", 0),
            Raw("text", 0)}}

\* The flags of a debug object: all of one kind, or one of each kind.
FlagKinds == {"true", "false", "upper", "jsontrue", "num", "missing"}
FlagChoices ==
  {[f \in Flags |-> [k |-> kind]] : kind \in FlagKinds}
  \cup {[f \in Flags |->
           [k |-> CASE f = "probe_mode_completed" -> "true"
                    [] f = "should_run_probe" -> "false"
                    [] f = "probe_done_this_cycle" -> "jsontrue"
                    [] f = "rtc_sleep_armed" -> "missing"
                    [] OTHER -> "upper"]]}

IngestDebug ==
  {RawDebug(k) : k \in {"missing", "null", "emptydict", "empty", "text"}}
  \cup {DebugDict(wc, flags) :
          wc \in {Raw("missing", 0), Raw("num", 1), Raw("list", 0)},
          flags \in FlagChoices}

DebugPayloads ==
  {WithDebug(Payload(Raw("num", 20), Raw("num", 95), Raw("missing", 0),
                     Raw("missing", 0), None, RawTs("missing")), d) :
     d \in IngestDebug}

\* The server starts at any time.
IngestInit ==
  /\ rows = <<>>
  /\ cache = EmptyCache
  /\ now \in {0, SecondsPerHour}
  /\ resp = NoResp
  /\ pc = [t \in Threads |-> Idle]
  /\ schema = FullSchema
  /\ dropped = {}

IngestNext ==
  \/ \E p \in TempPayloads : Submit(p, "none", MaxIngestRows)
  \/ \E p \in FaultPayloads, f \in StoreFaults \ {"none"} :
       Submit(p, f, MaxIngestRows)
  \/ \E p \in TsPayloads : Submit(p, "none", MaxIngestRows)
  \/ \E p \in DebugPayloads : Submit(p, "none", MaxIngestRows)
  \/ \E p \in BatteryPayloads : Submit(p, "none", MaxIngestRows)
  \/ \E e \in IngestEntries, f \in {"none", "insert"} :
       Migrate(e, f, MaxIngestRows)

IngestSpec == IngestInit /\ [][IngestNext]_vars

(***************************************************************************)
(* FaultSpec: submit and the migration with the store failing at each of   *)
(* its steps, between queries and ticks of the clock.                      *)
(***************************************************************************)
FaultNext ==
  \/ Tick(30)
  \/ \E p \in FaultPayloads, f \in StoreFaults : Submit(p, f, MaxFaultRows)
  \/ \E f \in StoreFaults :
       Migrate(Entry(Raw("num", 20), Raw("missing", 0), Raw("missing", 0)),
               f, MaxFaultRows)
  \/ GetRecentReadings(1, 1000)

FaultSpec == Init /\ [][FaultNext]_vars

(***************************************************************************)
(* ValidateSpec: validate_temp on one input.                               *)
(***************************************************************************)
ProbeNumbers == (TempMin - ProbeMargin)..(TempMax + ProbeMargin)

ValidateInputs ==
  {Raw(k, v) : k \in {"num", "strnum"}, v \in ProbeNumbers}
  \cup {Raw(k, 0) : k \in {"missing", "null", "nan", "text", "list"}}
  \cup {Raw(k, v) : k \in {"bigint", "inf"}, v \in {-1, 1}}
  \cup {Raw("bool", v) : v \in {0, 1}}

ValidateInit ==
  /\ rows = <<>>
  /\ cache = EmptyCache
  /\ now = 0
  /\ resp \in {[op |-> "input", req |-> v] : v \in ValidateInputs}
  /\ pc = [t \in Threads |-> Idle]
  /\ schema = FullSchema
  /\ dropped = {}

ValidateTemp ==
  /\ resp.op = "input"
  /\ resp' = [op |-> "validate_temp", req |-> resp.req,
              exc |-> validate_temp(resp.req).exc,
              ret |-> validate_temp(resp.req).ret]
  /\ UNCHANGED <<rows, cache, now, pc, schema, dropped>>

ValidateSpec == ValidateInit /\ [][ValidateTemp]_vars

(***************************************************************************)
(* StatsSpec: get_statistics on every small table.                         *)
(***************************************************************************)
StatTemplates ==
  {NewRow(<<>>, DbTime(0), t1, Num(60), Num(5), None, None) :
     t1 \in {None, Num(21)}}
  \cup {NewRow(<<>>, DbTime(SecondsPerHour), t1, None, None, None, None) :
          t1 \in {None, Num(TempMin), Num(21)}}
  \cup {NewRow(<<>>, DbTime(SecondsPerHour), Num(21), Num(60), Num(5), None, None)}
  \cup {NewRow(<<>>, DbTime(0), Raw("text", 0), None, None, None, None)}

StatStores ==
  UNION {{[i \in 1..n |-> [f[i] EXCEPT !.id = i]] : f \in [1..n -> StatTemplates]} :
           n \in 0..MaxStatRows}

StatsInit ==
  /\ rows \in StatStores
  /\ cache = EmptyCache
  /\ now = 2 * SecondsPerHour
  /\ resp = NoResp
  /\ pc = [t \in Threads |-> Idle]
  /\ schema = FullSchema
  /\ dropped = {}

StatsNext == \E h \in QueryHours : GetStatistics(h)

StatsSpec == StatsInit /\ [][StatsNext]_vars

(***************************************************************************)
(* SchemaSpec: init_database called again and again on every schema an     *)
(* earlier version can have left.                                          *)
(***************************************************************************)
RECURSIVE Select(_, _)
Select(s, S) ==
  IF s = <<>> THEN <<>>
  ELSE (IF Head(s) \in S THEN <<Head(s)>> ELSE <<>>) \o Select(Tail(s), S)

StartingSchemas ==
  {NoSchema, FullSchema}
  \cup {[table |-> TRUE, cols |-> BaseColumns \o Select(AlterColumns, S),
         index |-> ix] : S \in SUBSET Range(AlterColumns), ix \in BOOLEAN}

SchemaInit ==
  /\ rows = <<>>
  /\ cache = EmptyCache
  /\ now = 0
  /\ resp = NoResp
  /\ pc = [t \in Threads |-> Idle]
  /\ schema \in StartingSchemas
  /\ dropped = {}

\* init_database() is called; n counts the calls, before is the schema the
\* call found.
InitDatabase(fault) ==
  LET r == init_database(schema, fault)
      n == IF resp.op = "init_database" THEN resp.n + 1 ELSE 1
  IN  /\ n <= MaxInitCalls
      /\ schema' = r.schema
      /\ rows' = RowsAfterInit(rows, schema, r.schema)
      /\ resp' = [op |-> "init_database", fault |-> fault, exc |-> r.exc,
                  n |-> n, before |-> schema]
      /\ UNCHANGED <<cache, now, pc, dropped>>

SchemaNext == InitDatabase("none")

SchemaSpec == SchemaInit /\ [][SchemaNext]_vars

(***************************************************************************)
(* get_debug_info and health_check, and CoreSpec: every call of the core   *)
(* one after the other on a table of readings with and without             *)
(* diagnostics.                                                            *)
(***************************************************************************)

\* The JSON object get_debug_info builds from the row it fetched.
Bundle(r) ==
  [wake_cause |-> r.debug.wake_cause, flags |-> r.debug.flags,
   battery |-> r.battery, battery_status |-> r.battery_status]

\* get_debug_info(): the SELECT ... WHERE wake_cause IS NOT NULL ORDER BY
\* timestamp DESC LIMIT 1 and the answer, 200 with the bundle of the row
\* fetched, 404 when no row was fetched, 500 when the store fails.  SQL
\* leaves the order of equal timestamps open, so the answers are a set.
get_debug_info(store, fault) ==
  IF fault # "none"
  THEN {[code |-> 500, bundle |-> None, id |-> 0]}
  ELSE LET S == {i \in 1..Len(store) : store[i].debug.wake_cause # None}
       IN  {IF s = <<>> THEN [code |-> 404, bundle |-> None, id |-> 0]
            ELSE [code |-> 200, bundle |-> Bundle(store[s[1]]),
                  id |-> store[s[1]].id] :
              s \in OrderedBy(store, S, TRUE)}

\* health_check(): SELECT COUNT(*) and the answer.
health_check(store, fault) ==
  IF fault # "none"
  THEN [code |-> 500, status |-> "unhealthy", total_readings |-> 0]
  ELSE [code |-> 200, status |-> "healthy", total_readings |-> Len(store)]

\* GET /api/debug; id is the row the answer was built from (0 for none).
GetDebugInfo(fault) ==
  /\ \E r \in get_debug_info(rows, fault) :
       resp' = [op |-> "debug", fault |-> fault, code |-> r.code,
                bundle |-> r.bundle, id |-> r.id]
  /\ UNCHANGED <<rows, cache, now, pc, schema, dropped>>

\* GET /api/health
HealthCheck(fault) ==
  LET r == health_check(rows, fault)
  IN  /\ resp' = [op |-> "health", fault |-> fault, code |-> r.code,
                  status |-> r.status, total_readings |-> r.total_readings]
      /\ UNCHANGED <<rows, cache, now, pc, schema, dropped>>

AllTrue == [f \in Flags |-> [k |-> "true"]]

CorePayloads ==
  {Payload(Raw("num", 20), Raw("missing", 0), Raw("missing", 0),
           Raw("num", 4), None, RawTs("missing")),
   WithDebug(Payload(Raw("num", 60), Raw("missing", 0), Raw("missing", 0),
                     Raw("num", 3), None, RawTs("missing")),
             DebugDict(Raw("num", 1), AllTrue)),
   WithDebug(Payload(Raw("num", 5), Raw("missing", 0), Raw("missing", 0),
                     Raw("missing", 0), None, IsoTs("T", 0, 0, 0)),
             DebugDict(Raw("num", 2), AllTrue)),
   Payload(Raw("num", 81), Raw("missing", 0), Raw("missing", 0),
           Raw("missing", 0), None, RawTs("missing"))}

CoreNext ==
  \/ Tick(30)
  \/ \E p \in CorePayloads : Submit(p, "none", MaxCoreRows)
  \/ Migrate(Entry(Raw("num", 20), Raw("missing", 0), Raw("missing", 0)),
             "none", MaxCoreRows)
  \/ GetRecentReadings(1, 1000)
  \/ GetStatistics(1)
  \/ \E f \in {"none", "connect"} : GetDebugInfo(f)
  \/ \E f \in {"none", "connect"} : HealthCheck(f)
  \/ InitDatabase("none")

CoreSpec == Init /\ [][CoreNext]_vars

(***************************************************************************)
(* QuerySpec: get_recent_readings with every kind of hours and limit that  *)
(* GET /api/data passes (type=int: any integer), on tables whose rows lie  *)
(* before, at and after the server's time.                                 *)
(***************************************************************************)
WindowParams == {<<1, -1>>, <<1, 0>>, <<2, 1>>, <<0, 2>>, <<-1, 1000>>}

QueryTemplates ==
  {NewRow(<<>>, DbTime(t), Num(21), None, None, None, None) :
     t \in {0, SecondsPerHour, 2 * SecondsPerHour, 3 * SecondsPerHour}}

QueryStores ==
  UNION {{[i \in 1..n |-> [f[i] EXCEPT !.id = i]] :
            f \in [1..n -> QueryTemplates]} : n \in 0..MaxQueryRows}

QueryInit ==
  /\ rows \in QueryStores
  /\ cache = EmptyCache
  /\ now = 2 * SecondsPerHour
  /\ resp = NoResp
  /\ pc = [t \in Threads |-> Idle]
  /\ schema = FullSchema
  /\ dropped = {}

QueryNext == \E q \in WindowParams : GetRecentReadings(q[1], q[2])

QuerySpec == QueryInit /\ [][QueryNext]_vars

(***************************************************************************)
(* EvolveSpec: init_database on a table of an earlier version that holds   *)
(* rows.  A row of such a table has a value for each column of its table.  *)
(***************************************************************************)

\* The k-th row of a table with the columns cols, each value non-null.
LegacyRow(cols, k) ==
  [c \in Range(cols) |-> IF c = "id" THEN Num(k) ELSE [k |-> "val", of |-> c]]

LegacySchemas == {s \in StartingSchemas : s.table}

EvolveInit ==
  /\ schema \in LegacySchemas
  /\ \E n \in 0..MaxLegacyRows :
       rows = [k \in 1..n |-> LegacyRow(schema.cols, k)]
  /\ cache = EmptyCache
  /\ now = 0
  /\ resp = NoResp
  /\ pc = [t \in Threads |-> Idle]
  /\ dropped = {}

EvolveNext == InitDatabase("none")

EvolveSpec == EvolveInit /\ [][EvolveNext]_vars

(***************************************************************************)
(* require_ingest_token and TokenSpec: POST /submit with every kind of     *)
(* X-INGEST-TOKEN header.                                                  *)
(***************************************************************************)

\* The header of a request: none, an empty one, the configured token, an
\* ASCII string that is not the token, a string with a character that is
\* not ASCII.
Tokens == {"missing", "empty", "valid", "wrong", "nonascii"}

\* secrets.compare_digest(supplied, INGEST_TOKEN), which raises TypeError
\* for a str with a non-ASCII character.
compare_digest(supplied) ==
  IF supplied = "nonascii" THEN [exc |-> "TypeError", ret |-> FALSE]
  ELSE [exc |-> "", ret |-> supplied = "valid"]

\* The decorator: pass tells whether submit is called, code is the status
\* of the answer when it is not (500 for an exception nothing catches).
require_ingest_token(token) ==
  LET supplied == IF token = "missing" THEN "empty" ELSE token
      cmp == compare_digest(supplied)
  IN  IF supplied = "empty" THEN [pass |-> FALSE, code |-> 401, exc |-> ""]
      ELSE IF cmp.exc # "" THEN [pass |-> FALSE, code |-> 500, exc |-> cmp.exc]
      ELSE IF ~cmp.ret THEN [pass |-> FALSE, code |-> 401, exc |-> ""]
      ELSE [pass |-> TRUE, code |-> 0, exc |-> ""]

\* POST /submit with the header `token` and the body p.
PostSubmit(token, p, fault, bound) ==
  LET g == require_ingest_token(token)
  IN  IF g.pass THEN Submit(p, fault, bound)
      ELSE /\ resp' = [op |-> "require_ingest_token", token |-> token,
                       req |-> p, code |-> g.code, exc |-> g.exc]
           /\ UNCHANGED <<rows, cache, now, pc, schema, dropped>>

TokenPayloads == FaultPayloads \cup {ListPayload}

TokenNext ==
  \/ Tick(30)
  \/ \E token \in Tokens, p \in TokenPayloads, f \in {"none", "insert"} :
       PostSubmit(token, p, f, MaxTokenRows)
  \/ GetRecentReadings(1, 1000)

TokenSpec == Init /\ [][TokenNext]_vars

(***************************************************************************)
(* ConcSpec: the request threads run get_recent_readings and submit step   *)
(* by step and interleave.  A reader thread stops between its membership   *)
(* test, its lookup, its SELECT and its write of the cache; the writer     *)
(* between its COMMIT and its clearing of the cache.  The clock stands     *)
(* still.                                                                  *)
(***************************************************************************)

\* The number of rows whose submit has answered.
Acked == Len(rows) - (IF pc[Writer].st = "clear" THEN 1 ELSE 0)

\* Lines 200-203: the key, now = time.time(), `cache_key in self.cache`.
\* ack0 records the rows acknowledged when the call began.
RBegin(r, hours, limit) ==
  /\ pc[r] = Idle
  /\ pc' = [pc EXCEPT ![r] =
              [st |-> IF CacheKey(hours, limit) \in DOMAIN cache
                      THEN "lookup" ELSE "query",
               hours |-> hours, limit |-> limit, now0 |-> now,
               ack0 |-> Acked]]
  /\ resp' = NoResp
  /\ UNCHANGED <<rows, cache, now, schema, dropped>>

\* Lines 204-206: data, timestamp = self.cache[cache_key], and the return
\* of a fresh entry.
RLookup(r) ==
  LET me == pc[r]
      key == CacheKey(me.hours, me.limit)
  IN  /\ me.st = "lookup"
      /\ IF key \notin DOMAIN cache
         THEN /\ resp' = [op |-> "recent", hours |-> me.hours,
                          limit |-> me.limit, exc |-> "KeyError",
                          ack0 |-> me.ack0]
              /\ pc' = [pc EXCEPT ![r] = Idle]
         ELSE IF me.now0 - cache[key].timestamp < cache_timeout
         THEN /\ resp' = [op |-> "recent", hours |-> me.hours,
                          limit |-> me.limit, exc |-> "", src |-> "hit",
                          at |-> cache[key].timestamp,
                          data |-> cache[key].data, ack0 |-> me.ack0]
              /\ pc' = [pc EXCEPT ![r] = Idle]
         ELSE /\ resp' = NoResp
              /\ pc' = [pc EXCEPT ![r] = [me EXCEPT !.st = "query"]]
      /\ UNCHANGED <<rows, cache, now, schema, dropped>>

\* Lines 208-232: the SELECT and the building of the list.
RQuery(r) ==
  LET me == pc[r]
  IN  /\ me.st = "query"
      /\ \E data \in RecentResults(rows, now, me.hours, me.limit) :
           pc' = [pc EXCEPT ![r] =
                    [st |-> "put", hours |-> me.hours, limit |-> me.limit,
                     now0 |-> me.now0, ack0 |-> me.ack0, data |-> data]]
      /\ resp' = NoResp
      /\ UNCHANGED <<rows, cache, now, schema, dropped>>

\* Lines 235-236: self.cache[cache_key] = (data, now); return data.
RPut(r) ==
  LET me == pc[r]
  IN  /\ me.st = "put"
      /\ cache' = CachePut(cache, CacheKey(me.hours, me.limit), me.data,
                           me.now0)
      /\ resp' = [op |-> "recent", hours |-> me.hours, limit |-> me.limit,
                  exc |-> "", src |-> "miss", at |-> me.now0,
                  data |-> me.data, ack0 |-> me.ack0]
      /\ pc' = [pc EXCEPT ![r] = Idle]
      /\ UNCHANGED <<rows, now, schema, dropped>>

\* submit() up to conn.commit() and conn.close() of add_reading; a request
\* that is rejected or fails answers at once.
WCommit(p, fault) ==
  LET r == submit(rows, p, fault, now)
  IN  /\ pc[Writer] = Idle
      /\ Len(r.rows) <= MaxConcRows
      /\ rows' = r.rows
      /\ IF r.clear
         THEN /\ pc' = [pc EXCEPT ![Writer] =
                          [st |-> "clear", req |-> p, fault |-> fault,
                           code |-> r.code, status |-> r.status,
                           message |-> r.message]]
              /\ resp' = NoResp
         ELSE /\ pc' = pc
              /\ resp' = [op |-> "submit", req |-> p, fault |-> fault,
                          code |-> r.code, status |-> r.status,
                          message |-> r.message]
      /\ UNCHANGED <<cache, now, schema, dropped>>

\* The clearing that removes only the entries of one hour.
WClear_Partial ==
  LET me == pc[Writer]
      keep == {x \in DOMAIN cache : x[2] # 1}
  IN  /\ me.st = "clear"
      /\ cache' = [x \in keep |-> cache[x]]
      /\ dropped' = FreshKeys(cache, now)
      /\ resp' = [op |-> "submit", req |-> me.req, fault |-> me.fault,
                  code |-> me.code, status |-> me.status,
                  message |-> me.message]
      /\ pc' = [pc EXCEPT ![Writer] = Idle]
      /\ UNCHANGED <<rows, now, schema>>

\* self.cache.clear() of add_reading, and submit's answer.
WClear ==
  LET me == pc[Writer]
  IN  /\ me.st = "clear"
      /\ cache' = EmptyCache
      /\ dropped' = FreshKeys(cache, now)
      /\ resp' = [op |-> "submit", req |-> me.req, fault |-> me.fault,
                  code |-> me.code, status |-> me.status,
                  message |-> me.message]
      /\ pc' = [pc EXCEPT ![Writer] = Idle]
      /\ UNCHANGED <<rows, now, schema>>

ConcPayloads ==
  {Payload(Raw("num", 20), Raw("missing", 0), Raw("missing", 0),
           Raw("null", 0), None, RawTs("missing")),
   Payload(Raw("num", 81), Raw("missing", 0), Raw("missing", 0),
           Raw("null", 0), None, RawTs("missing"))}

ConcNext ==
  \/ \E r \in Readers, q \in QueryParams : RBegin(r, q[1], q[2])
  \/ \E r \in Readers : RLookup(r)
  \/ \E r \in Readers : RQuery(r)
  \/ \E r \in Readers : RPut(r)
  \/ \E p \in ConcPayloads, f \in {"none", "commit"} : WCommit(p, f)
  \/ WClear

ConcSpec == Init /\ [][ConcNext]_vars

(***************************************************************************)
(* Properties.                                                             *)
(***************************************************************************)

\* The temperature a raw field stands for, read from the statement of the
\* rule and not from validate_temp: a field is usable when it parses as a
\* number between TempMin and TempMax, and absent otherwise.
Usable(raw) ==
  raw.k \in {"num", "strnum", "bool"} /\ TempMin <= raw.v /\ raw.v <= TempMax

AllAbsent(p) ==
  p.kind = "dict" /\ ~Usable(p.t1) /\ ~Usable(p.t2) /\ ~Usable(p.t3)

SomeUsable(p) ==
  p.kind = "dict" /\ (Usable(p.t1) \/ Usable(p.t2) \/ Usable(p.t3))

\* C1: with no calls overlapping, every result get_recent_readings returns
\* is a result of its query on the table as it is when the call returns,
\* every accepted row included, for the time the result was computed at;
\* and so is every result of get_statistics.
CacheCoherentSeq ==
  /\ resp.op = "recent" =>
       resp.data \in RecentResults(rows, resp.at, resp.hours, resp.limit)
  /\ resp.op = "stats" =>
       [exc |-> resp.exc, stats |-> resp.stats]
         \in get_statistics(rows, resp.at, resp.hours)

\* A query that finds no entry because an ingest of this very second has
\* removed the fresh entry of its key, and that returns the new row.
CacheCoherentSeqWitness ==
  /\ resp.op = "recent"
  /\ resp.src = "miss"
  /\ CacheKey(resp.hours, resp.limit) \in dropped
  /\ rows # <<>>
  /\ rows[Len(rows)].timestamp = DbTime(now)
  /\ \E i \in 1..Len(resp.data) : resp.data[i] = ReadingDict(rows[Len(rows)])

\* C2: with the calls interleaving, a get_recent_readings call that began
\* after n submits had answered "ok" returns a result of its query on a
\* table that holds at least those n rows.
ConcReadersSeeAcked ==
  (resp.op = "recent" /\ resp.exc = "") =>
    \E n \in resp.ack0..Len(rows) :
      resp.data \in RecentResults(SubSeq(rows, 1, n), now, resp.hours,
                                  resp.limit)

\* C3: a submit whose t1, t2 and t3 are all absent answers 400 "No valid
\* temperature data" and leaves the table as it was.
AllAbsentRejected ==
  [][(resp'.op = "submit" /\ AllAbsent(resp'.req)) =>
       /\ resp'.code = 400
       /\ resp'.message = "No valid temperature data"
       /\ rows' = rows]_vars

\* C4: every row of the table has a non-null t1, t2 or t3, and every
\* non-null one is a number between TempMin and TempMax.
StoredReadingsValid ==
  \A i \in 1..Len(rows) :
    /\ rows[i].t1 # None \/ rows[i].t2 # None \/ rows[i].t3 # None
    /\ \A v \in {rows[i].t1, rows[i].t2, rows[i].t3} :
         v # None => v.k = "num" /\ TempMin <= v.v /\ v.v <= TempMax

\* C5: validate_temp never raises; it returns the number of a usable input
\* and None for every other input.
ValidateTempTotal ==
  resp.op = "validate_temp" =>
    /\ resp.exc = ""
    /\ resp.ret = IF Usable(resp.req) THEN Num(resp.req.v) ELSE None

\* The positions of the rows inside the window that hold a value of sensor.
NonNullInWindow(store, clock, hours, sensor) ==
  {i \in 1..Len(store) :
     /\ store[i].timestamp.t >= clock - hours * SecondsPerHour
     /\ SensorValue(store[i], sensor) # None}

RECURSIVE SumOver(_, _, _)
SumOver(store, sensor, I) ==
  IF I = {} THEN 0
  ELSE LET i == CHOOSE x \in I : TRUE
       IN  SensorValue(store[i], sensor).v + SumOver(store, sensor, I \ {i})

Abs(x) == IF x < 0 THEN -x ELSE x

SnapshotCorrect(snap, store, sensor, I) ==
  IF I = {} THEN snap = None
  ELSE /\ snap # None
       /\ \E i \in I : SensorValue(store[i], sensor).v = snap.min.val
       /\ \A i \in I : snap.min.val <= SensorValue(store[i], sensor).v
       /\ \E i \in I : SensorValue(store[i], sensor).v = snap.max.val
       /\ \A i \in I : snap.max.val >= SensorValue(store[i], sensor).v
       /\ 2 * Abs(100 * SumOver(store, sensor, I) - snap.avg * Cardinality(I))
            <= Cardinality(I)

\* C6: for every table get_statistics returns, and for each sensor it
\* returns the least and the greatest of the sensor's non-null values
\* inside the window and their mean to the nearest hundredth, and None when
\* the window holds no such value.
StatisticsCorrect ==
  resp.op = "stats" =>
    /\ resp.exc = ""
    /\ \A sensor \in {"t1", "t2", "t3"} :
         SnapshotCorrect(resp.stats[sensor], rows, sensor,
                         NonNullInWindow(rows, resp.at, resp.hours, sensor))

\* C7: a result returned from the cache is younger than cache_timeout; a
\* result that is not from the cache was computed now and is the entry of
\* its key, stored at now.
TtlFreshness ==
  resp.op = "recent" =>
    IF resp.src = "hit" THEN now - resp.at < cache_timeout
    ELSE /\ resp.at = now
         /\ CacheKey(resp.hours, resp.limit) \in DOMAIN cache
         /\ cache[CacheKey(resp.hours, resp.limit)] =
              [data |-> resp.data, timestamp |-> now]

\* A call that found an entry of age cache_timeout or more and replaced it.
TtlFreshnessWitness ==
  /\ resp.op = "recent"
  /\ resp.src = "stale"
  /\ cache[CacheKey(resp.hours, resp.limit)].timestamp = now

\* C8: no call of init_database raises, and from the second call on the
\* schema after the call is the schema before it.
InitIdempotent ==
  resp.op = "init_database" =>
    /\ resp.exc = ""
    /\ resp.n >= 2 => schema = resp.before

\* The second call on a table of an earlier version, which the first call
\* has extended.
InitIdempotentWitness ==
  /\ resp.op = "init_database"
  /\ resp.n = 2
  /\ schema.cols # CreateColumns
  /\ Range(schema.cols) = Range(CreateColumns)
  /\ schema.index

\* C9: a submit with a usable temperature that the store does not fail is
\* accepted whatever its ts; the row stored has, in the server's time, the
\* second of the instant an ISO ts names, with a space or a T, and the
\* server's time for every other ts; every stored timestamp has the form
\* of the table.
TimestampNormalized ==
  /\ \A i \in 1..Len(rows) :
       /\ rows[i].timestamp.sep = " "
       /\ rows[i].timestamp.frac = 0
       /\ rows[i].timestamp.t \in Int
  /\ (resp.op = "submit" /\ resp.req \in TsPayloads /\ resp.fault = "none") =>
       /\ resp.status = "ok"
       /\ rows[Len(rows)].timestamp.t =
            IF resp.req.ts.k = "iso"
            THEN resp.req.ts.t - resp.req.ts.off * SecondsPerHour
            ELSE now

\* C10: a submit with a usable temperature that fails on the store answers
\* with a server error (5xx), and a submit without a usable temperature
\* with a client error (4xx).
ErrorClassesDistinct ==
  resp.op = "submit" =>
    /\ (resp.fault # "none" /\ SomeUsable(resp.req)) => resp.code \div 100 = 5
    /\ AllAbsent(resp.req) => resp.code \div 100 = 4

\* C11: a submit calls add_reading at most once; when that call fails on
\* the store the answer is an error and the table is as it was; no step
\* adds more than one row, and a step that adds a row is a submit that
\* answers "ok" or an entry of the migration that raised nothing.
FailedAppendReported ==
  [][/\ resp'.op = "submit" =>
          /\ resp'.calls <= 1
          /\ (resp'.calls = 1 /\ resp'.fault # "none") =>
               /\ resp'.status = "error"
               /\ resp'.code # 200
               /\ rows' = rows
     /\ Len(rows') <= Len(rows) + 1
     /\ Len(rows') > Len(rows) =>
          \/ resp'.op = "submit" /\ resp'.status = "ok"
          \/ resp'.op = "migrate" /\ resp'.exc = ""]_vars

\* A submit whose one call of add_reading failed at the COMMIT, after a
\* query and a tick of the clock, the table still empty.
FailedAppendReportedWitness ==
  /\ resp.op = "submit"
  /\ resp.fault = "commit"
  /\ resp.calls = 1
  /\ resp.status = "error"
  /\ rows = <<>>
  /\ now > 0
  /\ cache # EmptyCache

\* C12: however a get_recent_readings call interleaves with the cache clear
\* of add_reading and with the cache writes of other readers, it raises
\* nothing and returns the whole of a cached or of a computed result.
ReaderNeverFails ==
  resp.op = "recent" =>
    /\ resp.exc = ""
    /\ resp.src \in {"hit", "miss"}
    /\ \E n \in 0..Len(rows) :
         resp.data \in RecentResults(SubSeq(rows, 1, n), now, resp.hours,
                                     resp.limit)

\* The value stored for a raw temperature, read from the statement of the
\* rule.
Degraded(raw) == IF Usable(raw) THEN Num(raw.v) ELSE None

\* C13: a submit with a usable t1, t2 or t3 that the store does not fail is
\* accepted whatever its other fields hold and appends one row, in which a
\* temperature that is not usable is None.
DegradesPerField ==
  [][(resp'.op = "submit" /\ resp'.fault = "none" /\ SomeUsable(resp'.req)) =>
       /\ resp'.status = "ok"
       /\ Len(rows') = Len(rows) + 1
       /\ rows'[Len(rows')].t1 = Degraded(resp'.req.t1)
       /\ rows'[Len(rows')].t2 = Degraded(resp'.req.t2)
       /\ rows'[Len(rows')].t3 = Degraded(resp'.req.t3)]_vars

\* The flag the rule stores for a debug field d: None when there is no
\* diagnostics object, and otherwise whether the raw value of the flag is
\* the string "true".
RuleFlag(d, f) ==
  IF d.k \in {"missing", "null"} THEN None
  ELSE IF d.k = "emptydict" THEN Bool(FALSE)
  ELSE Bool(d.flags[f].k = "true")

\* C14: in the row of an accepted submit whose debug field is an object or
\* is missing, each flag is true exactly when its raw value is the string
\* "true", false for every other raw value of a present object, and None
\* when there is no object.
FlagsParsedByRule ==
  (/\ resp.op = "submit"
   /\ resp.status = "ok"
   /\ resp.req \in DebugPayloads
   /\ resp.req.debug.k \in {"missing", "null", "emptydict", "dict"}) =>
    \A f \in Flags :
      rows[Len(rows)].debug.flags[f] = RuleFlag(resp.req.debug, f)

\* The positions of the rows with the greatest timestamp.
MostRecent(store) ==
  {i \in 1..Len(store) :
     \A j \in 1..Len(store) : TsGE(store[i].timestamp, store[j].timestamp)}

\* C15: get_debug_info answers 404 exactly when the table is empty, and
\* otherwise 200 with the diagnostics of a row of the greatest timestamp,
\* also when that row has none.
LatestDiagnostics ==
  (resp.op = "debug" /\ resp.fault = "none") =>
    IF rows = <<>> THEN resp.code = 404
    ELSE /\ resp.code = 200
         /\ \E i \in MostRecent(rows) : resp.bundle = Bundle(rows[i])

\* C17: no step of any call changes or removes a row of the table, and the
\* id of a row a step adds is greater than every id in the table.
AppendOnly ==
  [][/\ Len(rows') >= Len(rows)
     /\ SubSeq(rows', 1, Len(rows)) = rows
     /\ \A i \in (Len(rows) + 1)..Len(rows') :
          \A j \in 1..(i - 1) : rows'[j].id < rows'[i].id]_vars

\* init_database called again on a table of two rows, the second of them
\* from the migration.
AppendOnlyWitness ==
  /\ resp.op = "init_database"
  /\ Len(rows) = 2
  /\ rows[1].id < rows[2].id
  /\ rows[1].debug.wake_cause # None
  /\ rows[2].battery = None

\* C16: a computed result of get_recent_readings(hours, limit) holds only
\* rows of the window, in descending order of timestamp, at most `limit`
\* of them (none for a negative limit), and the most recent ones of the
\* window when it holds more.
WindowQueryCorrect ==
  (resp.op = "recent" /\ resp.src # "hit") =>
    LET W == {i \in 1..Len(rows) :
                rows[i].timestamp.t >= resp.at - resp.hours * SecondsPerHour}
        n == Len(resp.data)
        most == IF resp.limit < 0 THEN 0 ELSE resp.limit
    IN  /\ \A k \in 1..n : \E i \in W : resp.data[k] = ReadingDict(rows[i])
        /\ \A k \in 1..n : \A l \in k..n :
             TsGE(resp.data[k].ts, resp.data[l].ts)
        /\ n <= most
        /\ Cardinality(W) > most => n = most
        /\ Cardinality(W) <= most => n = Cardinality(W)
        /\ \A i \in W :
             \/ \E k \in 1..n : resp.data[k] = ReadingDict(rows[i])
             \/ \A k \in 1..n : TsGE(resp.data[k].ts, rows[i].timestamp)

\* The positions of the rows of the window that hold val for sensor.
Holders(store, clock, hours, sensor, val) ==
  {i \in NonNullInWindow(store, clock, hours, sensor) :
     SensorValue(store[i], sensor) = Num(val)}

\* The minute of the day of the earliest timestamp among the rows I.
EarliestTime(store, I) ==
  HHMM(store[CHOOSE i \in I :
               \A j \in I : store[i].timestamp.t <= store[j].timestamp.t]
         .timestamp)

\* C18: the time get_statistics reports with the min and with the max of a
\* sensor is that of the earliest row of the window that holds the value.
ExtremeTimeIsEarliest ==
  (resp.op = "stats" /\ resp.exc = "") =>
    \A sensor \in {"t1", "t2", "t3"} :
      resp.stats[sensor] # None =>
        LET snap == resp.stats[sensor]
        IN  /\ snap.min.time =
                 EarliestTime(rows, Holders(rows, resp.at, resp.hours, sensor,
                                            snap.min.val))
            /\ snap.max.time =
                 EarliestTime(rows, Holders(rows, resp.at, resp.hours, sensor,
                                            snap.max.val))

\* Two rows of the window share the min of t1; the one with the earlier
\* timestamp was inserted later.
ExtremeTimeIsEarliestWitness ==
  /\ resp.op = "stats"
  /\ resp.exc = ""
  /\ resp.stats.t1 # None
  /\ \E i, j \in Holders(rows, resp.at, resp.hours, "t1",
                        resp.stats.t1.min.val) :
       /\ i < j
       /\ rows[i].timestamp.t > rows[j].timestamp.t
       /\ resp.stats.t1.min.time = HHMM(rows[j].timestamp)
       /\ resp.stats.t1.min.time # HHMM(rows[i].timestamp)

\* C19: the current value get_statistics reports for a sensor is the value
\* of a row with the latest timestamp among the rows of the window that
\* hold a value of the sensor, whatever the order of insertion.
CurrentIsLatest ==
  (resp.op = "stats" /\ resp.exc = "") =>
    \A sensor \in {"t1", "t2", "t3"} :
      resp.stats[sensor] # None =>
        LET I == NonNullInWindow(rows, resp.at, resp.hours, sensor)
        IN  \E i \in I :
              /\ \A j \in I : rows[i].timestamp.t >= rows[j].timestamp.t
              /\ resp.stats[sensor].current = SensorValue(rows[i], sensor).v

\* The row inserted last has the earlier timestamp and another value, and
\* current is the value of the row inserted first.
CurrentIsLatestWitness ==
  /\ resp.op = "stats"
  /\ resp.exc = ""
  /\ Len(rows) = 2
  /\ rows[1].timestamp.t > rows[2].timestamp.t
  /\ rows[1].t1 # None /\ rows[2].t1 # None /\ rows[1].t1 # rows[2].t1
  /\ resp.hours = 2
  /\ resp.stats.t1 # None
  /\ resp.stats.t1.current = rows[1].t1.v

\* C20: the step of an accepted submit that commits inserts the row of the
\* validated temperatures and leaves the cache and the answer alone; the
\* answer "ok" comes with the step after it, which removes every entry of
\* the cache and leaves the table alone.
IngestStepOrder ==
  [][/\ (pc[Writer].st = "idle" /\ pc'[Writer].st = "clear") =>
          /\ Len(rows') = Len(rows) + 1
          /\ SubSeq(rows', 1, Len(rows)) = rows
          /\ rows'[Len(rows')].t1 = Degraded(pc'[Writer].req.t1)
          /\ rows'[Len(rows')].t2 = Degraded(pc'[Writer].req.t2)
          /\ rows'[Len(rows')].t3 = Degraded(pc'[Writer].req.t3)
          /\ cache' = cache
          /\ resp'.op # "submit"
     /\ (resp'.op = "submit" /\ resp'.status = "ok") =>
          /\ pc[Writer].st = "clear"
          /\ pc[Writer].req = resp'.req
          /\ rows' = rows
          /\ cache' = EmptyCache]_vars

\* An accepted submit whose clearing removed the fresh entries of two keys.
IngestStepOrderWitness ==
  /\ resp.op = "submit"
  /\ resp.status = "ok"
  /\ Cardinality(dropped) = 2
  /\ cache = EmptyCache
  /\ rows # <<>>

\* C21: init_database on a table that exists leaves the table with every
\* column of CREATE TABLE that it adds, with as many rows as before, each
\* with its values in the columns it had and None in the added ones.
SchemaEvolutionKeepsRows ==
  [][(resp'.op = "init_database" /\ schema.table) =>
       /\ resp'.exc = ""
       /\ Range(AlterColumns) \subseteq Range(schema'.cols)
       /\ Len(rows') = Len(rows)
       /\ \A i \in 1..Len(rows) :
            /\ DOMAIN rows'[i] = Range(schema'.cols)
            /\ \A c \in Range(schema.cols) : rows'[i][c] = rows[i][c]
            /\ \A c \in Range(schema'.cols) \ Range(schema.cols) :
                 rows'[i][c] = None]_vars

\* init_database has returned on a table of the first version with two
\* rows, which now have the added columns.
SchemaEvolutionKeepsRowsWitness ==
  /\ resp.op = "init_database"
  /\ resp.before.cols = BaseColumns
  /\ Len(rows) = 2
  /\ rows[2]["t1"] # None
  /\ rows[2]["battery"] = None
  /\ rows[2]["unsafe_wake"] = None

\* C22: an operation of the store that has returned, normally or with an
\* exception, has left none of the connections it opened open.
ConnectionsClosed ==
  resp.op \in {"submit", "migrate", "recent"} => resp.open = 0

\* C23: get_statistics(hours) that has returned a result has left it in the
\* cache, under a key of its own for these hours.
StatisticsCached ==
  (resp.op = "stats" /\ resp.exc = "") =>
    \E key \in DOMAIN cache :
      /\ key[1] # "recent"
      /\ key[2] = resp.hours
      /\ cache[key].data = resp.stats

\* C24: a submit answered with an error, and an entry of the migration on
\* which add_reading raised, leave the table and the cache (keys, results
\* and times) as they were.
FailedIngestChangesNothing ==
  [][((resp'.op = "submit" /\ resp'.status = "error")
        \/ (resp'.op = "migrate" /\ resp'.exc # ""))
       => (rows' = rows /\ cache' = cache)]_vars

\* A submit has failed at the COMMIT on a table with a row while the cache
\* holds a result.
FailedIngestChangesNothingWitness ==
  /\ resp.op = "submit"
  /\ resp.status = "error"
  /\ resp.fault = "commit"
  /\ resp.calls = 1
  /\ Len(rows) = 1
  /\ DOMAIN cache # {}

\* C25: a submit answered ok has appended one row to the table, whose t1,
\* t2 and t3 are the values validate_temp returned for the body and whose
\* battery and battery_status are the values of the body.
OkIngestStoresPayload ==
  [][(resp'.op = "submit" /\ resp'.status = "ok") =>
       /\ Len(rows') = Len(rows) + 1
       /\ SubSeq(rows', 1, Len(rows)) = rows
       /\ LET r == rows'[Len(rows')]
              p == resp'.req
          IN  /\ r.t1 = validate_temp(p.t1).ret
              /\ r.t2 = validate_temp(p.t2).ret
              /\ r.t3 = validate_temp(p.t3).ret
              /\ r.battery = PyValue(p.battery)
              /\ r.battery_status = p.battery_status]_vars

\* C26: every reading in a result of get_recent_readings(hours, limit),
\* from the cache or from the table, has a timestamp not before the time
\* of the call less hours.
ResultInsideWindowAtCall ==
  resp.op = "recent" =>
    \A i \in 1..Len(resp.data) :
      TsGE(resp.data[i].ts, Cutoff(now, resp.hours))

\* C27: on a table that calls of add_reading have filled, get_statistics
\* returns a result and raises nothing.
QueriesTotal == resp.op = "stats" => resp.exc = ""

\* C28: a POST /submit that the token check has not let through (the header
\* missing, empty or not the configured token) is answered with 401 and
\* leaves the table and the cache as they were.
InvalidTokenRejected ==
  [][resp'.op = "require_ingest_token" =>
       (resp'.code = 401 /\ rows' = rows /\ cache' = cache)]_vars

====
